---- MODULE Spec2Model ----
(***************************************************************************)
(* karcc: fixed-width numeric types stored as arrays of Bit.               *)
(*                                                                         *)
(* A value is a bit array, modelled as a function from the indices         *)
(* 0..W-1 to {Zero, One}; index 0 is the least significant bit.  The       *)
(* library is a set of pure functions and in-place mutators; the state     *)
(* machine below is a caller that holds one value in a register and calls  *)
(* the library on it, recording the last call and how it ended.            *)
(***************************************************************************)
EXTENDS Integers, Sequences, FiniteSets, TLC

VARIABLES
    ty,      \* type of the value in the register: "N8", "Byte", "N16", ...
    bits,    \* the register: the value's bit array
    op,      \* the last call ("new" after construction)
    lhs,     \* the bit array the last call was made on
    rhs,     \* the other operand of a binary call (<<>> when there is none)
    amt,     \* the shift / rotation amount of the last call (0 when none)
    native,  \* the native value passed to From (0 when none)
    out,     \* the native value or counts the last call returned (0 when none)
    status,  \* "ok": the call returned; "panic": the call unwound
    calls    \* number of calls made so far

vars == <<ty, bits, op, lhs, rhs, amt, native, out, status, calls>>

----------------------------------------------------------------------------
(* Bit and its truth-table operations                                      *)

Zero == 0
One == 1
Bit == {Zero, One}

\* u8::from(Bit)
BitToU8(val) == IF val = Zero THEN 0 ELSE 1

or(self, other) ==
    CASE self = Zero /\ other = Zero -> Zero
      [] self = Zero /\ other = One -> One
      [] self = One /\ other = Zero -> One
      [] self = One /\ other = One -> One

and(self, other) ==
    CASE self = Zero /\ other = Zero -> Zero
      [] self = Zero /\ other = One -> Zero
      [] self = One /\ other = Zero -> Zero
      [] self = One /\ other = One -> One

xor(self, other) ==
    CASE self = Zero /\ other = Zero -> Zero
      [] self = Zero /\ other = One -> One
      [] self = One /\ other = Zero -> One
      [] self = One /\ other = One -> Zero

not(self) == IF self = Zero THEN One ELSE Zero

\* enum Bool { False, True }
False == "False"
True == "True"
Bool == {False, True}

\* Bit::as_bool
as_bool(self) == CASE self = Zero -> False [] self = One -> True

\* Bit::from_bool
from_bool(value) == CASE value = False -> Zero [] value = True -> One

\* Bit::is
is(self, other) ==
    CASE self = Zero /\ other = Zero -> True
      [] self = One /\ other = One -> True
      [] OTHER -> False

NandIsAnd(self, other) == and(self, other)

\* Bit::nand: self.and(other).not()
nand(self, other) == not(and(self, other))

\* Bit::nor: self.or(other).not()
nor(self, other) == not(or(self, other))

\* Bit::xnor: self.xor(other).not()
xnor(self, other) == not(xor(self, other))

----------------------------------------------------------------------------
(* Widths and native machine words                                         *)

W4 == 4
W8 == 8
W16 == 16
W32 == 32
W64 == 64

RECURSIVE Pow2(_)
Pow2(n) == IF n = 0 THEN 1 ELSE 2 * Pow2(n - 1)

\* The native `&` and `|` on two non-negative words, bit by bit.
RECURSIVE NativeAnd(_, _)
NativeAnd(x, y) ==
    IF x = 0 \/ y = 0 THEN 0
    ELSE (IF x % 2 = 1 /\ y % 2 = 1 THEN 1 ELSE 0) + 2 * NativeAnd(x \div 2, y \div 2)

RECURSIVE NativeOr(_, _)
NativeOr(x, y) ==
    IF x = 0 THEN y
    ELSE IF y = 0 THEN x
    ELSE (IF x % 2 = 1 \/ y % 2 = 1 THEN 1 ELSE 0) + 2 * NativeOr(x \div 2, y \div 2)

ZeroBits(w) == [i \in 0..(w - 1) |-> Zero]

\* All bit arrays of width w.
BitArrays(w) == [0..(w - 1) -> Bit]

----------------------------------------------------------------------------
(* Conversions between native words and bit arrays                         *)
(*                                                                         *)
(* A native word of 8 or 16 bits is an integer: 0..2^w-1 when unsigned,    *)
(* -2^(w-1)..2^(w-1)-1 when signed.  A native word of 32 or 64 bits is     *)
(* the tuple of its 16-bit limbs, least significant first (the two's       *)
(* complement encoding when the word is signed).                           *)

\* The encoding of a signed w-bit word, and the signed word of an encoding.
TwosEnc(v, w) == v % Pow2(w)
TwosDec(e, w) == IF e >= Pow2(w - 1) THEN e - Pow2(w) ELSE e

\* `x & y` and `x | y` on signed w-bit words
SignedAnd(x, y, w) == TwosDec(NativeAnd(TwosEnc(x, w), TwosEnc(y, w)), w)
SignedOr(x, y, w) == TwosDec(NativeOr(TwosEnc(x, w), TwosEnc(y, w)), w)

\* `1 << i` in a signed w-bit word (1 << (w-1) is the minimum value)
SignedShl1(i, w) == TwosDec(Pow2(i) % Pow2(w), w)

UnsignedFromSkipsTopBit(value, w) ==
    [i \in 0..(w - 1) |->
        IF i < w - 1 /\ NativeAnd(value, Pow2(i)) # 0 THEN One ELSE Zero]

\* impl From<u8> for N8, From<u16> for N16:
\* bits[i] = if (value & (1 << i)) != 0 { One } else { Zero }
UnsignedFrom(value, w) ==
    [i \in 0..(w - 1) |-> IF NativeAnd(value, Pow2(i)) # 0 THEN One ELSE Zero]

\* impl From<N8> for u8, From<N16> for u16:
\* for i in 0..w { if bits[i] == One { result |= 1 << i } }
RECURSIVE UnsignedIntoLoop(_, _, _, _)
UnsignedIntoLoop(b, w, i, result) ==
    IF i = w THEN result
    ELSE UnsignedIntoLoop(b, w, i + 1,
                          IF b[i] = One THEN NativeOr(result, Pow2(i)) ELSE result)

UnsignedInto(b, w) == UnsignedIntoLoop(b, w, 0, 0)

N8_from_u8(value) == UnsignedFrom(value, W8)
N8_to_u8(b) == UnsignedInto(b, W8)
N16_from_u16(value) == UnsignedFrom(value, W16)
N16_to_u16(b) == UnsignedInto(b, W16)

\* impl From<i8> for Z8, From<i16> for Z16:
\* if (value & (1 << i)) != 0 { bits[i] = One }
SignedFrom(value, w) ==
    [i \in 0..(w - 1) |->
        IF SignedAnd(value, SignedShl1(i, w), w) # 0 THEN One ELSE Zero]

\* impl From<Z8> for i8, From<Z16> for i16:
\* for i in 0..w { if bits[i] == One { result |= 1 << i } }
RECURSIVE SignedIntoLoop(_, _, _, _)
SignedIntoLoop(b, w, i, result) ==
    IF i = w THEN result
    ELSE SignedIntoLoop(b, w, i + 1,
                        IF b[i] = One THEN SignedOr(result, SignedShl1(i, w), w)
                        ELSE result)

SignedInto(b, w) == SignedIntoLoop(b, w, 0, 0)

\* Number of 16-bit limbs of a w-bit word.
Limbs(w) == w \div 16

WideZero(w) == [j \in 1..Limbs(w) |-> 0]

\* `value & (1 << i)` on a wide word: the bit is in limb i / 16
WideAndBit(value, i) == NativeAnd(value[(i \div 16) + 1], Pow2(i % 16))

\* impl From<u32> for N32, From<u64> for N64, From<i32> for Z32,
\* From<i64> for Z64: bits[i] = One iff (value & (1 << i)) != 0
WideFrom(value, w) ==
    [i \in 0..(w - 1) |-> IF WideAndBit(value, i) # 0 THEN One ELSE Zero]

\* impl From<N32> for u32, From<N64> for u64:
\* bits.iter().enumerate().fold(0, |acc, (i, &bit)| acc | (u8::from(bit) as uW) << i)
\* The steps i in 16(j-1)..16j of the fold are the ones that write limb j.
RECURSIVE WideIntoFoldLimb(_, _, _)
WideIntoFoldLimb(b, j, n) ==
    IF n = 0 THEN 0
    ELSE NativeOr(WideIntoFoldLimb(b, j, n - 1),
                  BitToU8(b[16 * (j - 1) + n - 1]) * Pow2(n - 1))

WideIntoFold(b, w) == [j \in 1..Limbs(w) |-> WideIntoFoldLimb(b, j, 16)]

\* impl From<Z32> for i32, From<Z64> for i64:
\* for i in 0..w { if bits[i] == One { result |= 1 << i } }
\* The steps i in 16(j-1)..16j of the loop are the ones that write limb j.
RECURSIVE WideIntoLoopLimb(_, _, _)
WideIntoLoopLimb(b, j, n) ==
    IF n = 0 THEN 0
    ELSE LET result == WideIntoLoopLimb(b, j, n - 1)
         IN IF b[16 * (j - 1) + n - 1] = One THEN NativeOr(result, Pow2(n - 1))
            ELSE result

WideIntoLoop(b, w) == [j \in 1..Limbs(w) |-> WideIntoLoopLimb(b, j, 16)]

----------------------------------------------------------------------------
(* N8: bit-serial addition and subtraction                                 *)

FullAdderCarryAndOnly(a, b, carry) == <<xor(xor(a, b), carry), and(a, b)>>

\* fn full_adder(a, b, carry) -> (sum, new_carry)
full_adder(a, b, carry) ==
    <<xor(xor(a, b), carry),
      or(or(and(a, b), and(a, carry)), and(b, carry))>>

\* impl Add for N8: the loop over i in 0..8, the last carry dropped
RECURSIVE N8_add_loop(_, _, _, _, _)
N8_add_loop(self, other, i, carry, result_bits) ==
    IF i = W8 THEN result_bits
    ELSE LET fa == full_adder(self[i], other[i], carry)
         IN N8_add_loop(self, other, i + 1, fa[2],
                        [result_bits EXCEPT ![i] = fa[1]])

N8_add(self, other) == N8_add_loop(self, other, 0, Zero, ZeroBits(W8))

FullSubtractorBorrowSwapped(a, b, borrow) ==
    <<xor(xor(a, b), borrow),
      or(and(a, not(b)), and(borrow, not(xor(a, b))))>>

\* fn full_subtractor(a, b, borrow) -> (diff, new_borrow)
full_subtractor(a, b, borrow) ==
    <<xor(xor(a, b), borrow),
      or(and(b, not(a)), and(borrow, not(xor(a, b))))>>

\* impl Sub for N8: the loop over i in 0..8, the last borrow dropped
RECURSIVE N8_sub_loop(_, _, _, _, _)
N8_sub_loop(self, other, i, borrow, result_bits) ==
    IF i = W8 THEN result_bits
    ELSE LET fs == full_subtractor(self[i], other[i], borrow)
         IN N8_sub_loop(self, other, i + 1, fs[2],
                        [result_bits EXCEPT ![i] = fs[1]])

N8_sub(self, other) == N8_sub_loop(self, other, 0, Zero, ZeroBits(W8))

----------------------------------------------------------------------------
(* Exhaustive binary calls on N8: every pair of operands, one call each    *)

NoBits == <<>>

InitBinary ==
    /\ ty = "N8"
    /\ bits \in BitArrays(W8)
    /\ rhs \in BitArrays(W8)
    /\ op = "new"
    /\ lhs = bits
    /\ amt = 0
    /\ native = 0
    /\ out = 0
    /\ status = "ok"
    /\ calls = 0

\* a + b on the operands chosen at construction
N8Add ==
    /\ ty = "N8" /\ op = "new" /\ rhs # NoBits
    /\ bits' = N8_add(bits, rhs)
    /\ lhs' = bits
    /\ op' = "add"
    /\ status' = "ok"
    /\ calls' = calls + 1
    /\ UNCHANGED <<ty, rhs, amt, native, out>>

\* a - b on the operands chosen at construction
N8Sub ==
    /\ ty = "N8" /\ op = "new" /\ rhs # NoBits
    /\ bits' = N8_sub(bits, rhs)
    /\ lhs' = bits
    /\ op' = "sub"
    /\ status' = "ok"
    /\ calls' = calls + 1
    /\ UNCHANGED <<ty, rhs, amt, native, out>>

\* How a call ends: it returns a value, or it panics and the caller keeps
\* the value it had.
Returned(value) == [status |-> "ok", bits |-> value]
Panicked(self) == [status |-> "panic", bits |-> self]

\* The native `x * y` on a w-bit unsigned word.  A product that does not fit
\* overflows: the build panics when it checks overflow (debug profile) and
\* keeps the low w bits when it does not (release).
NativeMul(x, y, w, overflow_checks) ==
    IF x * y >= Pow2(w) /\ overflow_checks THEN [status |-> "panic", value |-> x]
    ELSE [status |-> "ok", value |-> (x * y) % Pow2(w)]

\* impl Mul for N8: (u8::from(self) * u8::from(other)).into()
N8_mul(self, other, overflow_checks) ==
    LET r == NativeMul(N8_to_u8(self), N8_to_u8(other), W8, overflow_checks)
    IN IF r.status = "panic" THEN Panicked(self)
       ELSE Returned(N8_from_u8(r.value))

\* a * b on the operands chosen at construction, under either build profile
N8Mul ==
    /\ ty = "N8" /\ op = "new" /\ rhs # NoBits
    /\ \E r \in {N8_mul(bits, rhs, overflow_checks) : overflow_checks \in BOOLEAN} :
         /\ bits' = r.bits
         /\ status' = r.status
    /\ lhs' = bits
    /\ op' = "mul"
    /\ calls' = calls + 1
    /\ UNCHANGED <<ty, rhs, amt, native, out>>

NextBinary == N8Add \/ N8Sub \/ N8Mul

SpecBinary == InitBinary /\ [][NextBinary]_vars

----------------------------------------------------------------------------
(* Native division, as the Div and Rem impls call it                       *)

Abs(x) == IF x < 0 THEN -x ELSE x

\* Integer division rounding toward zero (the native `/` on signed words).
TruncDiv(a, d) ==
    IF (a < 0) = (d < 0) THEN Abs(a) \div Abs(d) ELSE -(Abs(a) \div Abs(d))

WrappingDivFloors(a, d, w) ==
    LET q == TruncDiv(a, d)
    IN TwosDec(TwosEnc(IF q * d # a /\ (a < 0) # (d < 0) THEN q - 1 ELSE q, w), w)

\* i8::wrapping_div, i16::wrapping_div on a non-zero divisor
WrappingDiv(a, d, w) == TwosDec(TwosEnc(TruncDiv(a, d), w), w)

\* i8::wrapping_rem, i16::wrapping_rem on a non-zero divisor
WrappingRem(a, d, w) == TwosDec(TwosEnc(a - d * TruncDiv(a, d), w), w)

WideIsZero(v) == \A j \in DOMAIN v : v[j] = 0

\* The sign bit of a wide word.
WideIsNeg(v) == v[Len(v)] >= 32768

\* Two's complement negation of a wide word: invert every limb, add one.
RECURSIVE WideNegLoop(_, _, _)
WideNegLoop(v, j, carry) ==
    IF j > Len(v) THEN v
    ELSE LET t == (65535 - v[j]) + carry
         IN [WideNegLoop(v, j + 1, t \div 65536) EXCEPT ![j] = t % 65536]

WideNeg(v) == WideNegLoop(v, 1, 1)

WideAbs(v) == IF WideIsNeg(v) THEN WideNeg(v) ELSE v

\* The wide word of a small integer.
WideOfInt(k, w) ==
    IF k >= 0 THEN [j \in 1..Limbs(w) |-> IF j = 1 THEN k ELSE 0]
    ELSE WideNeg([j \in 1..Limbs(w) |-> IF j = 1 THEN -k ELSE 0])

\* Division of an unsigned wide word by a divisor 0 < d < 2^15, limb by limb
\* from the most significant limb: <<quotient, remainder>>.
RECURSIVE WideShortDiv(_, _, _, _)
WideShortDiv(v, d, j, rem) ==
    IF j = 0 THEN <<v, rem>>
    ELSE LET cur == rem * 65536 + v[j]
             rest == WideShortDiv(v, d, j - 1, cur % d)
         IN <<[rest[1] EXCEPT ![j] = cur \div d], rest[2]>>

\* u32 / u32, u64 / u64 on a non-zero divisor below 2^15
WideUDiv(a, d) == WideShortDiv(a, d[1], Len(a), 0)[1]

\* u32 % u32 on a non-zero divisor below 2^15
WideURem(a, d) ==
    [j \in 1..Len(a) |-> IF j = 1 THEN WideShortDiv(a, d[1], Len(a), 0)[2] ELSE 0]

\* i32::wrapping_div, i64::wrapping_div on a non-zero divisor of magnitude
\* below 2^15
WideWrappingDiv(a, d) ==
    LET q == WideUDiv(WideAbs(a), WideAbs(d))
    IN IF WideIsNeg(a) = WideIsNeg(d) THEN q ELSE WideNeg(q)

\* i32::wrapping_rem, i64::wrapping_rem on a non-zero divisor of magnitude
\* below 2^15
WideWrappingRem(a, d) ==
    LET r == WideURem(WideAbs(a), WideAbs(d))
    IN IF WideIsNeg(a) THEN WideNeg(r) ELSE r

----------------------------------------------------------------------------
(* The integer families                                                    *)

Unsigned == {"N8", "N16", "N32", "N64"}
Signed == {"Z8", "Z16", "Z32", "Z64"}
Families == Unsigned \cup Signed

Width(t) ==
    CASE t = "Nibble" -> W4
      [] t \in {"N8", "Z8", "Byte"} -> W8
      [] t \in {"N16", "Z16"} -> W16
      [] t \in {"N32", "Z32", "R32"} -> W32
      [] t \in {"N64", "Z64", "R64"} -> W64

IsWide(t) == Width(t) > W16

\* T::from(value)
From(t, value) ==
    CASE t \in {"N8", "N16"} -> UnsignedFrom(value, Width(t))
      [] t \in {"Z8", "Z16"} -> SignedFrom(value, Width(t))
      [] OTHER -> WideFrom(value, Width(t))

\* the native value of a T
Into(t, b) ==
    CASE t \in {"N8", "N16"} -> UnsignedInto(b, Width(t))
      [] t \in {"Z8", "Z16"} -> SignedInto(b, Width(t))
      [] t \in {"N32", "N64"} -> WideIntoFold(b, Width(t))
      [] OTHER -> WideIntoLoop(b, Width(t))

DivideReturnsZeroOnZero(t, self, a, d) ==
    IF (IF Width(t) > W16 THEN WideIsZero(d) ELSE d = 0)
    THEN Returned(ZeroBits(Width(t)))
    ELSE CASE t \in {"N8", "N16"} -> Returned(From(t, a \div d))
           [] t \in {"Z8", "Z16"} -> Returned(From(t, WrappingDiv(a, d, Width(t))))
           [] t \in {"N32", "N64"} -> Returned(From(t, WideUDiv(a, d)))
           [] OTHER -> Returned(From(t, WideWrappingDiv(a, d)))

\* The native division of the words a and d, re-encoded: `a / d` on the
\* unsigned types, a.wrapping_div(d) on the signed ones; both panic on a zero
\* divisor.
NativeDivide(t, self, a, d) ==
    CASE t \in {"N8", "N16"} ->
           IF d = 0 THEN Panicked(self) ELSE Returned(From(t, a \div d))
      [] t \in {"Z8", "Z16"} ->
           IF d = 0 THEN Panicked(self)
           ELSE Returned(From(t, WrappingDiv(a, d, Width(t))))
      [] t \in {"N32", "N64"} ->
           IF WideIsZero(d) THEN Panicked(self)
           ELSE Returned(From(t, WideUDiv(a, d)))
      [] OTHER ->
           IF WideIsZero(d) THEN Panicked(self)
           ELSE Returned(From(t, WideWrappingDiv(a, d)))

DivPanicsOnOverflow(t, self, other) ==
    IF t \in {"Z8", "Z16"} /\ Into(t, self) = -Pow2(Width(t) - 1) /\ Into(t, other) = -1
    THEN Panicked(self)
    ELSE NativeDivide(t, self, Into(t, self), Into(t, other))

\* impl Div for T: (native(self) / native(other)).into(), resp.
\* native(self).wrapping_div(native(other)).into()
Div(t, self, other) ==
    CHOOSE r \in {NativeDivide(t, self, a, d) :
                    a \in {Into(t, self)}, d \in {Into(t, other)}} : TRUE

\* The types that implement Rem.
HasRem == {"N32"} \cup Signed

\* The native remainder of the words a and d, re-encoded: `a % d` on N32,
\* a.wrapping_rem(d) on the signed types; both panic on a zero divisor.
NativeRemainder(t, self, a, d) ==
    CASE t \in {"Z8", "Z16"} ->
           IF d = 0 THEN Panicked(self)
           ELSE Returned(From(t, WrappingRem(a, d, Width(t))))
      [] t = "N32" ->
           IF WideIsZero(d) THEN Panicked(self)
           ELSE Returned(From(t, WideURem(a, d)))
      [] OTHER ->
           IF WideIsZero(d) THEN Panicked(self)
           ELSE Returned(From(t, WideWrappingRem(a, d)))

\* impl Rem for T: (native(self) % native(other)).into(), resp.
\* native(self).wrapping_rem(native(other)).into()
Rem(t, self, other) ==
    CHOOSE r \in {NativeRemainder(t, self, a, d) :
                    a \in {Into(t, self)}, d \in {Into(t, other)}} : TRUE

----------------------------------------------------------------------------
(* Conversions and division on every family: a value is built from a       *)
(* native word, and one call is made on it: it is converted back, divided  *)
(* or reduced.                                                             *)

MaxDivisor == 2

\* The limbs the wide native inputs are made of.
LimbSamples == {0, 32769, 65535}

\* The native words values are built from.
NativeSamples(t) ==
    CASE t = "N8" -> 0..255
      [] t = "Z8" -> -128..127
      [] t = "N16" -> {0, 1, 255, 256, 32767, 32768, 51914, 65534, 65535}
      [] t = "Z16" -> {-32768, -32767, -13622, -256, -1, 0, 1, 255, 32767}
      [] OTHER -> [1..Limbs(Width(t)) -> LimbSamples]

\* The native divisors: zero, small positive ones and, on the signed types,
\* small negative ones.
Divisors(t) ==
    LET ks == IF t \in Signed THEN (-MaxDivisor)..MaxDivisor ELSE 0..MaxDivisor
    IN IF IsWide(t) THEN {WideOfInt(k, Width(t)) : k \in ks} ELSE ks

InitNative ==
    /\ ty \in Families
    /\ native \in NativeSamples(ty)
    /\ bits = From(ty, native)
    /\ op = "from"
    /\ lhs = bits
    /\ rhs = NoBits
    /\ amt = 0
    /\ out = 0
    /\ status = "ok"
    /\ calls = 0

\* native(x): the value is converted back to its native word
IntoNative ==
    /\ op = "from"
    /\ out' = Into(ty, bits)
    /\ op' = "into"
    /\ lhs' = bits
    /\ rhs' = NoBits
    /\ calls' = calls + 1
    /\ UNCHANGED <<ty, bits, amt, native, status>>

\* x / T::from(d)
Divide ==
    /\ op = "from"
    /\ \E d \in Divisors(ty) :
         \E other \in {From(ty, d)} :
           \E r \in {Div(ty, bits, other)} :
             /\ rhs' = other
             /\ bits' = r.bits
             /\ status' = r.status
    /\ op' = "div"
    /\ lhs' = bits
    /\ calls' = calls + 1
    /\ UNCHANGED <<ty, amt, native, out>>

\* x % T::from(d)
Remainder ==
    /\ op = "from"
    /\ ty \in HasRem
    /\ \E d \in Divisors(ty) :
         \E other \in {From(ty, d)} :
           \E r \in {Rem(ty, bits, other)} :
             /\ rhs' = other
             /\ bits' = r.bits
             /\ status' = r.status
    /\ op' = "rem"
    /\ lhs' = bits
    /\ calls' = calls + 1
    /\ UNCHANGED <<ty, amt, native, out>>

NextNative == IntoNative \/ Divide \/ Remainder

SpecNative == InitNative /\ [][NextNative]_vars

----------------------------------------------------------------------------
(* Z8: arithmetic on the native i8                                         *)

\* The w-bit two's-complement value congruent to v: what the native
\* wrapping_add, wrapping_sub and wrapping_mul keep of the exact result.
Wrap(v, w) == TwosDec(TwosEnc(v, w), w)

Z8AddSaturates(self, other) ==
    LET v == SignedInto(self, W8) + SignedInto(other, W8)
    IN SignedFrom(IF v > 127 THEN 127 ELSE IF v < -128 THEN -128 ELSE v, W8)

\* impl Add for Z8: i8::from(self).wrapping_add(i8::from(rhs)).into()
Z8_add(self, other) ==
    SignedFrom(Wrap(SignedInto(self, W8) + SignedInto(other, W8), W8), W8)

Z8SubSwapsOperands(self, other) ==
    SignedFrom(Wrap(SignedInto(other, W8) - SignedInto(self, W8), W8), W8)

\* impl Sub for Z8: i8::from(self).wrapping_sub(i8::from(rhs)).into()
Z8_sub(self, other) ==
    SignedFrom(Wrap(SignedInto(self, W8) - SignedInto(other, W8), W8), W8)

\* impl Mul for Z8: i8::from(self).wrapping_mul(i8::from(rhs)).into()
Z8_mul(self, other) ==
    SignedFrom(Wrap(SignedInto(self, W8) * SignedInto(other, W8), W8), W8)

\* The native `!` of a w-bit signed integer: every bit of its two's
\* complement word inverted.
NativeNot(v, w) == TwosDec(Pow2(w) - 1 - TwosEnc(v, w), w)

NotNegates(t, self) == From(t, Wrap(-Into(t, self), Width(t)))

\* impl Not for Z8, Z16: (!native(self)).into()
Not(t, self) == From(t, NativeNot(Into(t, self), Width(t)))

\* The right operands and the 16-bit values the exploration draws from.
SignedOperands == {-128, -127, -64, -16, -7, -3, -2, -1, 0, 1, 2, 3, 7, 16, 64, 127}
Z16Values == SignedOperands \cup {-32768, -129, 10, 128, 32767}

\* How many times in a row `!` is applied.
MaxNot == 2

\* Every Z8 with a right operand, or a Z16 on its own.
InitSigned ==
    /\ \/ /\ ty = "Z8"
          /\ bits \in BitArrays(W8)
          /\ rhs \in {SignedFrom(v, W8) : v \in SignedOperands}
       \/ /\ ty = "Z16"
          /\ bits \in {SignedFrom(v, W16) : v \in Z16Values}
          /\ rhs = NoBits
    /\ op = "new"
    /\ lhs = bits
    /\ amt = 0
    /\ native = 0
    /\ out = 0
    /\ status = "ok"
    /\ calls = 0

\* a + b on the operands chosen at construction
Z8Add ==
    /\ ty = "Z8" /\ op = "new"
    /\ bits' = Z8_add(bits, rhs)
    /\ op' = "add"
    /\ calls' = calls + 1
    /\ UNCHANGED <<ty, lhs, rhs, amt, native, out, status>>

\* a - b
Z8Sub ==
    /\ ty = "Z8" /\ op = "new"
    /\ bits' = Z8_sub(bits, rhs)
    /\ op' = "sub"
    /\ calls' = calls + 1
    /\ UNCHANGED <<ty, lhs, rhs, amt, native, out, status>>

\* a * b
Z8Mul ==
    /\ ty = "Z8" /\ op = "new"
    /\ bits' = Z8_mul(bits, rhs)
    /\ op' = "mul"
    /\ calls' = calls + 1
    /\ UNCHANGED <<ty, lhs, rhs, amt, native, out, status>>

\* a / b
Z8Div ==
    /\ ty = "Z8" /\ op = "new"
    /\ \E r \in {Div(ty, bits, rhs)} :
         /\ bits' = r.bits
         /\ status' = r.status
    /\ op' = "div"
    /\ calls' = calls + 1
    /\ UNCHANGED <<ty, lhs, rhs, amt, native, out>>

\* a % b
Z8Rem ==
    /\ ty = "Z8" /\ op = "new"
    /\ \E r \in {Rem(ty, bits, rhs)} :
         /\ bits' = r.bits
         /\ status' = r.status
    /\ op' = "rem"
    /\ calls' = calls + 1
    /\ UNCHANGED <<ty, lhs, rhs, amt, native, out>>

\* x = !x, on a fresh value or on the result of the previous `!`
DoNot ==
    /\ op \in {"new", "not"} /\ calls < MaxNot
    /\ bits' = Not(ty, bits)
    /\ lhs' = bits
    /\ op' = "not"
    /\ calls' = calls + 1
    /\ UNCHANGED <<ty, rhs, amt, native, out, status>>

NextSigned == Z8Add \/ Z8Sub \/ Z8Mul \/ Z8Div \/ Z8Rem \/ DoNot

SpecSigned == InitSigned /\ [][NextSigned]_vars

----------------------------------------------------------------------------
(* Bit: a single bit under a sequence of calls                             *)

MaxBitCalls == 3

InitBit ==
    /\ ty = "Bit"
    /\ bits \in Bit
    /\ rhs \in Bit
    /\ op = "new"
    /\ lhs = bits
    /\ amt = 0
    /\ native = 0
    /\ out = 0
    /\ status = "ok"
    /\ calls = 0

CanCallBit == ty = "Bit" /\ calls < MaxBitCalls

\* self &= other, self |= other, self ^= other
BitAssign ==
    /\ CanCallBit
    /\ \E other \in Bit, o \in {"and", "or", "xor"} :
         /\ bits' = CASE o = "and" -> and(bits, other)
                      [] o = "or" -> or(bits, other)
                      [] o = "xor" -> xor(bits, other)
         /\ rhs' = other
         /\ op' = o
    /\ lhs' = bits
    /\ calls' = calls + 1
    /\ UNCHANGED <<ty, amt, native, out, status>>

\* self = !self
BitNot ==
    /\ CanCallBit
    /\ bits' = not(bits)
    /\ op' = "not"
    /\ lhs' = bits
    /\ calls' = calls + 1
    /\ UNCHANGED <<ty, rhs, amt, native, out, status>>

\* self.nand(&other), self.nor(&other), self.xnor(&other), self.is(&other)
BitQuery ==
    /\ CanCallBit
    /\ \E other \in Bit, o \in {"nand", "nor", "xnor", "is"} :
         /\ out' = CASE o = "nand" -> nand(bits, other)
                     [] o = "nor" -> nor(bits, other)
                     [] o = "xnor" -> xnor(bits, other)
                     [] o = "is" -> is(bits, other)
         /\ rhs' = other
         /\ op' = o
    /\ lhs' = bits
    /\ calls' = calls + 1
    /\ UNCHANGED <<ty, bits, amt, native, status>>

\* self.as_bool()
AsBool ==
    /\ CanCallBit
    /\ out' = as_bool(bits)
    /\ op' = "as_bool"
    /\ lhs' = bits
    /\ calls' = calls + 1
    /\ UNCHANGED <<ty, bits, rhs, amt, native, status>>

\* self = Bit::from_bool(value)
FromBool ==
    /\ CanCallBit
    /\ \E value \in Bool :
         /\ bits' = from_bool(value)
         /\ out' = value
    /\ op' = "from_bool"
    /\ lhs' = bits
    /\ calls' = calls + 1
    /\ UNCHANGED <<ty, rhs, amt, native, status>>

NextBit == BitAssign \/ BitNot \/ BitQuery \/ AsBool \/ FromBool

SpecBit == InitBit /\ [][NextBit]_vars

----------------------------------------------------------------------------
(* R32, R64: conversion from and to the native float                       *)

\* A native float is its sign, its biased exponent and its fraction, the
\* fraction in 16-bit limbs, least significant first, the last limb holding
\* the top 7 (f32) or 4 (f64) fraction bits.
ExpBits(t) == IF t = "R32" THEN 8 ELSE 11
TopFracBits(t) == 16 - 1 - ExpBits(t)

\* f32::to_bits, f64::to_bits: the IEEE 754 encoding, as a wide word
to_bits(t, value) ==
    [j \in 1..Limbs(Width(t)) |->
        IF j < Limbs(Width(t)) THEN value.frac[j]
        ELSE value.sign * 32768 + value.exp * Pow2(TopFracBits(t)) + value.frac[j]]

\* f32::from_bits, f64::from_bits: the float with that encoding
from_bits(t, p) ==
    LET top == p[Limbs(Width(t))]
    IN [sign |-> top \div 32768,
        exp |-> (top % 32768) \div Pow2(TopFracBits(t)),
        frac |-> [j \in 1..Limbs(Width(t)) |->
                    IF j < Limbs(Width(t)) THEN p[j] ELSE top % Pow2(TopFracBits(t))]]

RFromDropsSign(t, value) ==
    [WideFrom(to_bits(t, value), Width(t)) EXCEPT ![Width(t) - 1] = Zero]

\* impl From<f32> for R32, From<f64> for R64:
\* bits[i] = One iff (value.to_bits() & (1 << i)) != 0
R_from(t, value) == WideFrom(to_bits(t, value), Width(t))

\* impl From<R32> for f32, From<R64> for f64:
\* for i in 0..w { if bits[i] == One { result |= 1 << i } }; from_bits(result)
R_into(t, b) == from_bits(t, WideIntoLoop(b, Width(t)))

Reals == {"R32", "R64"}

\* The native floats conversions are called on: both signs; the exponents of
\* zeros and subnormals (0), of normal numbers, and of infinities and NaNs
\* (all ones); fractions that are zero, have only the quiet bit, only the
\* lowest bit, or every bit set.
FloatSamples(t) ==
    [sign : {0, 1},
     exp : {0, 1, Pow2(ExpBits(t) - 1) - 1, Pow2(ExpBits(t)) - 2, Pow2(ExpBits(t)) - 1},
     frac : {[j \in 1..Limbs(Width(t)) |->
                IF j < Limbs(Width(t)) THEN low ELSE high] :
             low \in {0, 1, 65535},
             high \in {0, 1, Pow2(TopFracBits(t) - 1), Pow2(TopFracBits(t)) - 1}}]

InitFloat ==
    /\ ty \in Reals
    /\ native \in FloatSamples(ty)
    /\ bits = NoBits
    /\ op = "input"
    /\ lhs = NoBits
    /\ rhs = NoBits
    /\ amt = 0
    /\ out = 0
    /\ status = "ok"
    /\ calls = 0

\* x = R::from(native)
FromFloat ==
    /\ ty \in Reals /\ op = "input"
    /\ bits' = R_from(ty, native)
    /\ op' = "from"
    /\ calls' = calls + 1
    /\ UNCHANGED <<ty, lhs, rhs, amt, native, out, status>>

\* native float of x
IntoFloat ==
    /\ ty \in Reals /\ op = "from"
    /\ out' = R_into(ty, bits)
    /\ op' = "into"
    /\ calls' = calls + 1
    /\ UNCHANGED <<ty, bits, lhs, rhs, amt, native, status>>

NextFloat == FromFloat \/ IntoFloat

SpecFloat == InitFloat /\ [][NextFloat]_vars

----------------------------------------------------------------------------
(* Rotation, reversal, shifts and population count                         *)

ByteRotateLeftClamped(self, n) ==
    LET m == IF n > 7 THEN 7 ELSE n
    IN [j \in 0..(W8 - 1) |-> self[(j + W8 - m) % W8]]

\* Byte::rotate_left: n = n % 8; for i in 0..8 { result[(i + n) % 8] = bits[i] }
RECURSIVE Byte_rotate_left_loop(_, _, _, _)
Byte_rotate_left_loop(self, n, i, result) ==
    IF i = W8 THEN result
    ELSE Byte_rotate_left_loop(self, n, i + 1,
                               [result EXCEPT ![(i + n) % W8] = self[i]])

Byte_rotate_left(self, n) ==
    Byte_rotate_left_loop(self, n % W8, 0, ZeroBits(W8))

ByteRotateRightSameWay(self, n) == Byte_rotate_left(self, n)

\* Byte::rotate_right: n = n % 8; for i in 0..8 { result[(i + 8 - n) % 8] = bits[i] }
RECURSIVE Byte_rotate_right_loop(_, _, _, _)
Byte_rotate_right_loop(self, n, i, result) ==
    IF i = W8 THEN result
    ELSE Byte_rotate_right_loop(self, n, i + 1,
                                [result EXCEPT ![(i + W8 - n) % W8] = self[i]])

Byte_rotate_right(self, n) ==
    Byte_rotate_right_loop(self, n % W8, 0, ZeroBits(W8))

\* u8::rotate_left(n): (x << (n % 8)) | (x >> (8 - n % 8)), on 8 bits
U8RotateLeft(x, n) ==
    NativeOr((x * Pow2(n % W8)) % Pow2(W8), x \div Pow2(W8 - (n % W8)))

\* u8::rotate_right(n): (x >> (n % 8)) | (x << (8 - n % 8)), on 8 bits
U8RotateRight(x, n) ==
    NativeOr(x \div Pow2(n % W8), (x * Pow2(W8 - (n % W8))) % Pow2(W8))

\* N8::as_byte: Byte { bits: self.bits }
as_byte(self) == [i \in 0..(W8 - 1) |-> self[i]]

N8RotateLeftShifts(self, n) ==
    N8_from_u8((N8_to_u8(self) * Pow2(n % W8)) % Pow2(W8))

\* impl BitwiseRotate for N8: *self = u8::from(*self).rotate_left(n).into()
N8_rotate_left(self, n) == N8_from_u8(U8RotateLeft(N8_to_u8(self), n))

\* impl BitwiseRotate for N8: *self = u8::from(*self).rotate_right(n).into()
N8_rotate_right(self, n) == N8_from_u8(U8RotateRight(N8_to_u8(self), n))

ReverseCopiesInPlace(b, w) ==
    [i \in 0..(w - 1) |-> IF i < w \div 2 THEN b[w - 1 - i] ELSE b[i]]

ReverseSkipsMiddle(b, w) ==
    [i \in 0..(w - 1) |->
        IF i \in {(w \div 2) - 1, w \div 2} THEN b[i] ELSE b[w - 1 - i]]

\* impl BitwiseReverse for N8, N16: self.bits.reverse(), which swaps the
\* elements at i and w - 1 - i for every i below w / 2
RECURSIVE reverse_loop(_, _, _)
reverse_loop(b, w, i) ==
    IF i >= w \div 2 THEN b
    ELSE reverse_loop([b EXCEPT ![i] = b[w - 1 - i], ![w - 1 - i] = b[i]],
                      w, i + 1)

reverse_bits(b, w) == reverse_loop(b, w, 0)

\* impl BitCount: self.bits.iter().filter(|b| b == One).count()
count_ones(b) == Cardinality({i \in DOMAIN b : b[i] = One})

CountZerosSkipsFirst(b) == Cardinality({i \in DOMAIN b : i > 0 /\ b[i] = Zero})

\* impl BitCount: self.bits.iter().filter(|b| b == Zero).count()
count_zeros(b) == Cardinality({i \in DOMAIN b : b[i] = Zero})

\* The native `x << k` on a w-bit unsigned word.  A shift amount k >= w
\* overflows: the build panics when it checks overflow (debug profile) and
\* shifts by k masked to the width (k & (w - 1)) when it does not (release).
NativeShl(x, k, w, overflow_checks) ==
    IF k >= w /\ overflow_checks THEN [status |-> "panic", value |-> x]
    ELSE [status |-> "ok", value |-> (x * Pow2(k % w)) % Pow2(w)]

\* The native `x >> k` on a w-bit unsigned word, with the same overflow rule.
NativeShr(x, k, w, overflow_checks) ==
    IF k >= w /\ overflow_checks THEN [status |-> "panic", value |-> x]
    ELSE [status |-> "ok", value |-> x \div Pow2(k % w)]

\* impl Shl<u8> for N8, N16: (native(self) << shift).into()
Shl(self, shift, w, overflow_checks) ==
    LET r == NativeShl(UnsignedInto(self, w), shift, w, overflow_checks)
    IN IF r.status = "panic" THEN Panicked(self)
       ELSE Returned(UnsignedFrom(r.value, w))

\* impl Shr<u8> for N8, N16: (native(self) >> shift).into()
Shr(self, shift, w, overflow_checks) ==
    LET r == NativeShr(UnsignedInto(self, w), shift, w, overflow_checks)
    IN IF r.status = "panic" THEN Panicked(self)
       ELSE Returned(UnsignedFrom(r.value, w))

\* u32::wrapping_add, limb by limb with the carry
RECURSIVE WideAddLoop(_, _, _, _)
WideAddLoop(a, b, j, carry) ==
    IF j > Len(a) THEN a
    ELSE LET t == a[j] + b[j] + carry
         IN [WideAddLoop(a, b, j + 1, t \div 65536) EXCEPT ![j] = t % 65536]

WideWrappingAdd(a, b) == WideAddLoop(a, b, 1, 0)

\* u32::wrapping_sub: a + (-b) on the encodings
WideWrappingSub(a, b) == WideWrappingAdd(a, WideNeg(b))

\* impl Add for N8 (bit-serial), N16 and N32 (native wrapping_add)
Add(t, self, other) ==
    CASE t = "N8" -> N8_add(self, other)
      [] t = "N16" ->
           N16_from_u16((N16_to_u16(self) + N16_to_u16(other)) % Pow2(W16))
      [] t = "N32" ->
           CHOOSE r \in {WideFrom(sum, W32) :
                           sum \in {WideWrappingAdd(a, b) :
                                      a \in {WideIntoFold(self, W32)},
                                      b \in {WideIntoFold(other, W32)}}} : TRUE

\* impl Sub for N8 (bit-serial), N16 and N32 (native wrapping_sub)
Sub(t, self, other) ==
    CASE t = "N8" -> N8_sub(self, other)
      [] t = "N16" ->
           N16_from_u16((N16_to_u16(self) - N16_to_u16(other)) % Pow2(W16))
      [] t = "N32" ->
           CHOOSE r \in {WideFrom(diff, W32) :
                           diff \in {WideWrappingSub(a, b) :
                                       a \in {WideIntoFold(self, W32)},
                                       b \in {WideIntoFold(other, W32)}}} : TRUE

\* (x as u32) * (y as u32) on two u16 words, as the limbs <<low, high>> of
\* the u32: the product is below 2^32, so the native `*` cannot overflow.
U32MulWidened(x, y) ==
    LET p0 == (x % 256) * y
        p1 == (x \div 256) * y
        low == p0 + (p1 % 256) * 256
    IN <<low % 65536, (p1 \div 256) + (low \div 65536)>>

N16MulTruncates(self, other) ==
    WideFrom(<<U32MulWidened(N16_to_u16(self), N16_to_u16(other))[1], 0>>, W32)

\* impl Mul for N16: (u16::from(self) as u32 * u16::from(other) as u32).into()
N16_mul(self, other) ==
    WideFrom(U32MulWidened(N16_to_u16(self), N16_to_u16(other)), W32)

\* rotate_left / rotate_right of a Byte (on the bit array) and of an N8 (on
\* the native value)
RotateLeft(t, self, n) ==
    IF t = "Byte" THEN Byte_rotate_left(self, n) ELSE N8_rotate_left(self, n)

RotateRight(t, self, n) ==
    IF t = "Byte" THEN Byte_rotate_right(self, n) ELSE N8_rotate_right(self, n)

----------------------------------------------------------------------------
(* The caller: a register holding one value, and calls made on it          *)

MaxCalls == 2
MaxOperand == 1
MaxRotate == 9
MaxOverShift == 0

\* The types the register can hold.
Types == {"N8", "Byte", "N16", "N32"}

\* The values the register holds after construction: every N8 and every
\* Byte (new), and the N16 and N32 built from the sampled native words.
InitialValues(t) ==
    IF t \in {"N8", "Byte"} THEN BitArrays(W8)
    ELSE {From(t, v) : v \in NativeSamples(t)}

\* The other operand of an addition or a subtraction.
Operands(t) ==
    IF t = "N32" THEN {From(t, v) : v \in {WideOfInt(k, W32) : k \in 0..MaxOperand}
                                          \cup {<<65535, 65535>>}}
    ELSE {From(t, v) : v \in 0..MaxOperand \cup {Pow2(Width(t)) - 1}}

\* The rotation amounts: below the width, at it and above it.
Rotations == {0, 1, 2, 7} \cup W8..MaxRotate

\* The shift amounts: below the width, at it, above it, and u8::MAX.
Shifts(w) == {1, 255} \cup (w - 1)..(w + MaxOverShift)

Init ==
    /\ ty \in Types
    /\ bits \in InitialValues(ty)
    /\ op = "new"
    /\ lhs = bits
    /\ rhs = NoBits
    /\ amt = 0
    /\ native = 0
    /\ out = 0
    /\ status = "ok"
    /\ calls = 0

CanCall == status = "ok" /\ calls < MaxCalls

\* x += b
AddAssign ==
    /\ CanCall /\ ty \in {"N8", "N16", "N32"}
    /\ \E other \in Operands(ty) :
         /\ rhs' = other
         /\ bits' = Add(ty, bits, other)
    /\ op' = "add"
    /\ lhs' = bits
    /\ amt' = 0
    /\ calls' = calls + 1
    /\ UNCHANGED <<ty, native, out, status>>

\* x * b on an N16: the register now holds the N32 product
N16Mul ==
    /\ CanCall /\ ty = "N16"
    /\ \E other \in InitialValues("N16") :
         /\ rhs' = other
         /\ bits' = N16_mul(bits, other)
    /\ ty' = "N32"
    /\ op' = "mul"
    /\ lhs' = bits
    /\ amt' = 0
    /\ calls' = calls + 1
    /\ UNCHANGED <<native, out, status>>

\* x -= b
SubAssign ==
    /\ CanCall /\ ty \in {"N8", "N16", "N32"}
    /\ \E other \in Operands(ty) :
         /\ rhs' = other
         /\ bits' = Sub(ty, bits, other)
    /\ op' = "sub"
    /\ lhs' = bits
    /\ amt' = 0
    /\ calls' = calls + 1
    /\ UNCHANGED <<ty, native, out, status>>

\* x.rotate_left(n)
DoRotateLeft ==
    /\ CanCall /\ ty \in {"N8", "Byte"}
    /\ \E n \in Rotations :
         /\ amt' = n
         /\ bits' = RotateLeft(ty, bits, n)
    /\ op' = "rotate_left"
    /\ lhs' = bits
    /\ rhs' = NoBits
    /\ calls' = calls + 1
    /\ UNCHANGED <<ty, native, out, status>>

\* x.rotate_right(n)
DoRotateRight ==
    /\ CanCall /\ ty \in {"N8", "Byte"}
    /\ \E n \in Rotations :
         /\ amt' = n
         /\ bits' = RotateRight(ty, bits, n)
    /\ op' = "rotate_right"
    /\ lhs' = bits
    /\ rhs' = NoBits
    /\ calls' = calls + 1
    /\ UNCHANGED <<ty, native, out, status>>

\* x.reverse_bits()
DoReverseBits ==
    /\ CanCall /\ ty \in {"N8", "N16"}
    /\ bits' = reverse_bits(bits, Width(ty))
    /\ op' = "reverse_bits"
    /\ lhs' = bits
    /\ rhs' = NoBits
    /\ amt' = 0
    /\ calls' = calls + 1
    /\ UNCHANGED <<ty, native, out, status>>

\* x <<= k, under either build profile
ShlAssign ==
    /\ CanCall /\ ty \in {"N8", "N16"}
    /\ \E k \in Shifts(Width(ty)) :
         \E r \in {Shl(bits, k, Width(ty), overflow_checks) :
                     overflow_checks \in BOOLEAN} :
           /\ amt' = k
           /\ bits' = r.bits
           /\ status' = r.status
    /\ op' = "shl"
    /\ lhs' = bits
    /\ rhs' = NoBits
    /\ calls' = calls + 1
    /\ UNCHANGED <<ty, native, out>>

\* x >>= k, under either build profile
ShrAssign ==
    /\ CanCall /\ ty \in {"N8", "N16"}
    /\ \E k \in Shifts(Width(ty)) :
         \E r \in {Shr(bits, k, Width(ty), overflow_checks) :
                     overflow_checks \in BOOLEAN} :
           /\ amt' = k
           /\ bits' = r.bits
           /\ status' = r.status
    /\ op' = "shr"
    /\ lhs' = bits
    /\ rhs' = NoBits
    /\ calls' = calls + 1
    /\ UNCHANGED <<ty, native, out>>

\* (x.count_ones(), x.count_zeros())
Count ==
    /\ CanCall /\ ty \in {"N8", "N16", "N32"}
    /\ out' = <<count_ones(bits), count_zeros(bits)>>
    /\ op' = "count"
    /\ lhs' = bits
    /\ rhs' = NoBits
    /\ amt' = 0
    /\ calls' = calls + 1
    /\ UNCHANGED <<ty, bits, native, status>>

Next ==
    \/ AddAssign
    \/ N16Mul
    \/ SubAssign
    \/ DoRotateLeft
    \/ DoRotateRight
    \/ DoReverseBits
    \/ ShlAssign
    \/ ShrAssign
    \/ Count

Spec == Init /\ [][Next]_vars

----------------------------------------------------------------------------
(* Parsing an N8 from text                                                 *)

MaxStrLen == 9

\* The characters of the inputs: the two binary digits, another ASCII
\* digit, and a character that takes two bytes in UTF-8.
BinaryChars == {"0", "1"}
OtherChars == {"2", "e_acute"}

\* The number of bytes of a character's UTF-8 encoding.
Utf8Len(c) == IF c = "e_acute" THEN 2 ELSE 1

\* s.len(): the length of the string in bytes
RECURSIVE StrLen(_)
StrLen(s) == IF s = <<>> THEN 0 ELSE Utf8Len(Head(s)) + StrLen(Tail(s))

\* Err(()): no value is produced
ParseErr == [status |-> "err", bits |-> NoBits]

FromStrLoopForward(s, i, result) ==
    IF \E k \in 1..Len(s) : s[k] \notin BinaryChars THEN ParseErr
    ELSE Returned([j \in 0..(W8 - 1) |->
                     IF j < Len(s) /\ s[j + 1] = "1" THEN One ELSE Zero])

\* for (i, c) in s.chars().rev().enumerate() { match c { '0' => bits[i] = Zero,
\* '1' => bits[i] = One, _ => return Err(()) } }  Ok(N8 { bits })
RECURSIVE from_str_loop(_, _, _)
from_str_loop(s, i, result) ==
    IF i = Len(s) THEN Returned(result)
    ELSE LET c == s[Len(s) - i]
         IN CASE c = "0" -> from_str_loop(s, i + 1, [result EXCEPT ![i] = Zero])
              [] c = "1" -> from_str_loop(s, i + 1, [result EXCEPT ![i] = One])
              [] OTHER -> ParseErr

FromStrTruncates(s) ==
    from_str_loop(IF Len(s) > W8 THEN SubSeq(s, Len(s) - W8 + 1, Len(s)) ELSE s,
                  0, ZeroBits(W8))

\* impl FromStr for N8: if s.len() > 8 { return Err(()) }, then the loop
from_str(s) ==
    IF StrLen(s) > W8 THEN ParseErr ELSE from_str_loop(s, 0, ZeroBits(W8))

\* The strings of n binary digits.
BinaryStrings(n) == [1..n -> BinaryChars]

\* The inputs: every string of at most MaxStrLen binary digits, and every
\* such string with one character replaced by a non-binary one.
Strings ==
    LET binary == UNION {BinaryStrings(n) : n \in 0..MaxStrLen}
    IN binary \cup {[s EXCEPT ![k] = c] :
                      <<s, k>> \in {<<t, j>> \in binary \X (1..MaxStrLen) : j <= Len(t)},
                      c \in OtherChars}

InitParse ==
    /\ ty = "N8"
    /\ native \in Strings
    /\ op = "input"
    /\ bits = NoBits
    /\ lhs = NoBits
    /\ rhs = NoBits
    /\ amt = 0
    /\ out = 0
    /\ status = "ok"
    /\ calls = 0

\* s.parse::<N8>()
Parse ==
    /\ op = "input"
    /\ \E r \in {from_str(native)} :
         /\ bits' = r.bits
         /\ status' = r.status
    /\ op' = "from_str"
    /\ calls' = calls + 1
    /\ UNCHANGED <<ty, lhs, rhs, amt, native, out>>

NextParse == Parse

SpecParse == InitParse /\ [][NextParse]_vars

----------------------------------------------------------------------------
(* The bit-vector containers Byte and Nibble: indexing and shifts          *)

MaxIndex == 9

GetBitNextIndex(self, index) ==
    IF index >= W8 THEN [status |-> "panic", out |-> 0]
    ELSE [status |-> "ok", out |-> self[(index + 1) % W8]]

\* Byte::get_bit: self.bits[index]; the index of an array is bounds-checked
\* in every build, and an index out of bounds panics.
get_bit(self, index) ==
    IF index >= W8 THEN [status |-> "panic", out |-> 0]
    ELSE [status |-> "ok", out |-> self[index]]

\* Byte::set_bit: self.bits[index] = bit, bounds-checked in the same way
set_bit(self, index, bit) ==
    IF index >= W8 THEN Panicked(self)
    ELSE Returned([self EXCEPT ![index] = bit])

ShlWrapsAmount(self, shift, w) ==
    [i \in 0..(w - 1) |-> IF i >= shift % w THEN self[i - (shift % w)] ELSE Zero]

\* impl Shl<u8> for Byte, Nibble: for i in shift..W { result[i] = bits[i - shift] }
RECURSIVE container_shl_loop(_, _, _, _, _)
container_shl_loop(self, shift, w, i, result) ==
    IF i >= w THEN result
    ELSE container_shl_loop(self, shift, w, i + 1,
                            [result EXCEPT ![i] = self[i - shift]])

\* impl Shl<u8> for Byte, Nibble: if shift >= W { return zero }, then the loop
container_shl(self, shift, w) ==
    IF shift >= w THEN ZeroBits(w)
    ELSE container_shl_loop(self, shift, w, shift, ZeroBits(w))

\* impl Shr<u8> for Byte, Nibble: for i in 0..(W - shift) { result[i] = bits[i + shift] }
RECURSIVE container_shr_loop(_, _, _, _, _)
container_shr_loop(self, shift, w, i, result) ==
    IF i >= w - shift THEN result
    ELSE container_shr_loop(self, shift, w, i + 1,
                            [result EXCEPT ![i] = self[i + shift]])

\* impl Shr<u8> for Byte, Nibble: if shift >= W { return zero }, then the loop
container_shr(self, shift, w) ==
    IF shift >= w THEN ZeroBits(w)
    ELSE container_shr_loop(self, shift, w, 0, ZeroBits(w))

\* The container types.
Containers == {"Byte", "Nibble"}

\* The shift amounts of a container of width w: every amount up to the
\* width and past it, and u8::MAX.
ContainerShifts(w) == 0..(w + MaxOverShift) \cup {255}

\* Nibble::ONE
Nibble_ONE == [j \in 0..(W4 - 1) |-> <<Zero, Zero, Zero, One>>[j + 1]]

\* impl Display for Bit
BitDisplay(self) == CASE self = Zero -> "0" [] self = One -> "1"

\* impl Display for Byte, Nibble: for bit in self.bits.iter().rev(), the
\* characters written in order
Display(self, w) == [k \in 1..w |-> BitDisplay(self[w - k])]

\* A container built by new from any bits, or the constant Nibble::ONE.
InitContainer ==
    /\ \/ /\ ty \in Containers
          /\ bits \in BitArrays(Width(ty))
          /\ native = "new"
       \/ /\ ty = "Nibble"
          /\ bits = Nibble_ONE
          /\ native = "ONE"
    /\ op = "new"
    /\ lhs = bits
    /\ rhs = NoBits
    /\ amt = 0
    /\ out = 0
    /\ status = "ok"
    /\ calls = 0

\* x.get_bit(index)
GetBit ==
    /\ op = "new" /\ ty = "Byte"
    /\ \E index \in 0..MaxIndex :
         \E r \in {get_bit(bits, index)} :
           /\ amt' = index
           /\ out' = r.out
           /\ status' = r.status
    /\ op' = "get_bit"
    /\ calls' = calls + 1
    /\ UNCHANGED <<ty, bits, lhs, rhs, native>>

\* x.set_bit(index, bit)
SetBit ==
    /\ op = "new" /\ ty = "Byte"
    /\ \E index \in 0..MaxIndex, bit \in Bit :
         \E r \in {set_bit(bits, index, bit)} :
           /\ amt' = index
           /\ rhs' = bit
           /\ bits' = r.bits
           /\ status' = r.status
    /\ op' = "set_bit"
    /\ calls' = calls + 1
    /\ UNCHANGED <<ty, lhs, native, out>>

\* x << k
ContainerShl ==
    /\ op = "new"
    /\ \E k \in ContainerShifts(Width(ty)) :
         /\ amt' = k
         /\ bits' = container_shl(bits, k, Width(ty))
    /\ op' = "shl"
    /\ calls' = calls + 1
    /\ UNCHANGED <<ty, lhs, rhs, native, out, status>>

\* x >> k
ContainerShr ==
    /\ op = "new"
    /\ \E k \in ContainerShifts(Width(ty)) :
         /\ amt' = k
         /\ bits' = container_shr(bits, k, Width(ty))
    /\ op' = "shr"
    /\ calls' = calls + 1
    /\ UNCHANGED <<ty, lhs, rhs, native, out, status>>

\* format!("{}", x)
Format ==
    /\ op = "new"
    /\ out' = Display(bits, Width(ty))
    /\ op' = "fmt"
    /\ calls' = calls + 1
    /\ UNCHANGED <<ty, bits, lhs, rhs, amt, native, status>>

NextContainer == GetBit \/ SetBit \/ ContainerShl \/ ContainerShr \/ Format

SpecContainer == InitContainer /\ [][NextContainer]_vars

----------------------------------------------------------------------------
(* Byte, Nibble: construction from a sequence of bits                      *)

MaxSeqLen == 9

FromIterKeepsLast(s, w) ==
    [i \in 0..(w - 1) |->
        IF Len(s) >= w THEN s[Len(s) - w + i + 1]
        ELSE IF i < Len(s) THEN s[i + 1] ELSE Zero]

\* for (i, bit) in iter.into_iter().enumerate().take(W) { bits[i] = bit }
RECURSIVE from_iter_loop(_, _, _, _)
from_iter_loop(s, i, w, result) ==
    IF i >= Len(s) \/ i >= w THEN result
    ELSE from_iter_loop(s, i + 1, w, [result EXCEPT ![i] = s[i + 1]])

\* impl FromIterator<Bit> for Byte, Nibble
from_iter(s, w) == from_iter_loop(s, 0, w, ZeroBits(w))

\* The bit sequences collected: every one of length 0..MaxSeqLen.
BitSequences == UNION {[1..n -> Bit] : n \in 0..MaxSeqLen}

InitCollect ==
    /\ ty \in Containers
    /\ native \in BitSequences
    /\ bits = NoBits
    /\ op = "input"
    /\ lhs = NoBits
    /\ rhs = NoBits
    /\ amt = 0
    /\ out = 0
    /\ status = "ok"
    /\ calls = 0

\* x = iter.collect()
Collect ==
    /\ ty \in Containers /\ op = "input"
    /\ bits' = from_iter(native, Width(ty))
    /\ op' = "from_iter"
    /\ calls' = calls + 1
    /\ UNCHANGED <<ty, lhs, rhs, amt, native, out, status>>

NextCollect == Collect

SpecCollect == InitCollect /\ [][NextCollect]_vars

----------------------------------------------------------------------------
(* C1: for all N8 a and b, a + b returns (without failing) the N8 whose    *)
(* value is (value(a) + value(b)) mod 256, the native wrapping sum.        *)
C1_AddWraps ==
    op = "add" =>
        /\ status = "ok"
        /\ N8_to_u8(bits) = (N8_to_u8(lhs) + N8_to_u8(rhs)) % 256

\* 255 + 1 has been computed and is 0
C1_Witness ==
    /\ op = "add"
    /\ N8_to_u8(lhs) = 255 /\ N8_to_u8(rhs) = 1
    /\ N8_to_u8(bits) = 0

(* C2: for all N8 a and b, a - b returns the N8 whose value is             *)
(* (value(a) - value(b)) mod 256, also when value(a) < value(b).           *)
C2_SubWraps ==
    op = "sub" =>
        /\ status = "ok"
        /\ N8_to_u8(bits) = (N8_to_u8(lhs) - N8_to_u8(rhs)) % 256

\* 3 - 5 has been computed and is 254 (the underflow case)
C2_Witness ==
    /\ op = "sub"
    /\ N8_to_u8(lhs) = 3 /\ N8_to_u8(rhs) = 5
    /\ N8_to_u8(bits) = 254

(* C3: for every integer family and every native value v of its width,     *)
(* the value built from v has, at every index i, bit i of v's (two's       *)
(* complement) binary encoding, and converting it back returns v.          *)
EncodingBit(t, v, i) ==
    IF IsWide(t) THEN (v[(i \div 16) + 1] \div Pow2(i % 16)) % 2
    ELSE (TwosEnc(v, Width(t)) \div Pow2(i)) % 2

C3_RoundTrip ==
    /\ op \in {"from", "into"} =>
         \A i \in 0..(Width(ty) - 1) :
            bits[i] = IF EncodingBit(ty, native, i) = 1 THEN One ELSE Zero
    /\ op = "into" => out = native

\* the minimum Z8 value has been converted and converted back
C3_Witness ==
    /\ op = "into" /\ ty = "Z8"
    /\ native = -128 /\ bits[7] = One
    /\ out = -128

(* C4 as claimed: on every integer type, dividing or taking the remainder  *)
(* by a divisor whose value is zero returns a DivisionByZero error to the  *)
(* caller, and no quotient.                                                *)
IsZeroValue(b) == \A i \in DOMAIN b : b[i] = Zero

C4_ReturnsError ==
    (op \in {"div", "rem"} /\ IsZeroValue(rhs)) => (status = "err" /\ bits = lhs)

(* C4 as the code has it: on every integer type, dividing (and, where Rem  *)
(* is implemented, taking the remainder) by a divisor whose value is zero  *)
(* panics: the call does not return, no quotient is produced; and a        *)
(* division by a non-zero divisor returns.                                 *)
C4_DivByZeroPanics ==
    op \in {"div", "rem"} =>
        IF IsZeroValue(rhs) THEN status = "panic" /\ bits = lhs
        ELSE status = "ok"

\* a Z64 has been divided by zero
C4_Witness ==
    /\ op = "div" /\ ty = "Z64"
    /\ IsZeroValue(rhs) /\ ~IsZeroValue(lhs)
    /\ status = "panic"


(* C5: on N8 and N16, a shift (left or right) by an amount k >= W yields   *)
(* the zero value; it never wraps the shift amount and never fails.        *)
C5_ShiftSaturates ==
    (op \in {"shl", "shr"} /\ amt >= Width(ty)) =>
        (status = "ok" /\ IsZeroValue(bits))

(* C6: for every Byte and every N8 x and every amount k, rotate_right by k *)
(* applied to the result of rotate_left by k gives x back, and a rotation  *)
(* leaves the number of One bits unchanged.                                *)
C6_RotationInverts ==
    [][/\ (op = "rotate_left" /\ op' = "rotate_right" /\ amt' = amt) =>
            bits' = lhs
       /\ op' \in {"rotate_left", "rotate_right"} =>
            count_ones(bits') = count_ones(lhs')]_vars

C6_Witness ==
    /\ op = "rotate_right" /\ ty = "N8" /\ amt = 9 /\ calls = 2
    /\ lhs = RotateLeft(ty, bits, amt)
    /\ N8_to_u8(lhs) = 149 /\ N8_to_u8(bits) = 202

(* C7: for every Byte and every N8 x and every k, rotating x by k gives    *)
(* what rotating x by k mod 8 gives, in both directions; rotating by 0 or  *)
(* by a multiple of 8 leaves x unchanged.                                  *)
C7_RotationModWidth ==
    /\ op = "rotate_left" =>
         /\ bits = RotateLeft(ty, lhs, amt % 8)
         /\ amt % 8 = 0 => bits = lhs
    /\ op = "rotate_right" =>
         /\ bits = RotateRight(ty, lhs, amt % 8)
         /\ amt % 8 = 0 => bits = lhs

C7_Witness ==
    /\ op = "rotate_left" /\ ty = "Byte" /\ amt = 9
    /\ bits = RotateLeft("Byte", lhs, 1) /\ bits # lhs

\* The number of 1 digits in the binary encoding of a native value.
RECURSIVE PopCount(_)
PopCount(v) == IF v = 0 THEN 0 ELSE (v % 2) + PopCount(v \div 2)

EncodingOnes(t, b) ==
    IF t = "N32"
    THEN CHOOSE n \in {PopCount(v[1]) + PopCount(v[2]) : v \in {Into(t, b)}} : TRUE
    ELSE PopCount(Into(t, b))

(* C8: for every N8, N16 and N32 value x, fresh or produced by add, sub,   *)
(* rotate and reverse_bits calls, count_ones(x) + count_zeros(x) = W and   *)
(* count_ones(x) is the number of 1 bits of x's binary encoding.           *)
C8_PopulationCount ==
    op = "count" =>
        /\ out[1] + out[2] = Width(ty)
        /\ out[1] = EncodingOnes(ty, bits)

C8_Witness ==
    /\ op = "count" /\ ty = "N32" /\ calls = 2
    /\ out = <<17, 15>>

(* C9: for every N8 and N16 value x, reverse_bits applied twice in         *)
(* succession leaves x equal to its original value.                        *)
C9_ReverseInvolution ==
    [][(op = "reverse_bits" /\ op' = "reverse_bits") => bits' = lhs]_vars

C9_Witness ==
    /\ op = "reverse_bits" /\ ty = "N16" /\ calls = 2
    /\ N16_to_u16(bits) = 51914 /\ N16_to_u16(lhs) = 21331

(* C10: for every N8 and N16 value x, after reverse_bits the bit at index  *)
(* i is the original bit at index W-1-i, for every i in 0..W-1; the N8     *)
(* built from 0b1100_1010 becomes 0b0101_0011.                             *)
C10_ReverseMirrors ==
    op = "reverse_bits" =>
        \A i \in 0..(Width(ty) - 1) : bits[i] = lhs[Width(ty) - 1 - i]

C10_Witness ==
    /\ op = "reverse_bits" /\ ty = "N8"
    /\ lhs = N8_from_u8(202) /\ bits = N8_from_u8(83)


\* The value of a string of binary digits, most significant digit first.
RECURSIVE BinaryValue(_)
BinaryValue(s) ==
    IF s = <<>> THEN 0
    ELSE 2 * BinaryValue(SubSeq(s, 1, Len(s) - 1))
         + (IF s[Len(s)] = "1" THEN 1 ELSE 0)

IsBinary(s) == \A k \in 1..Len(s) : s[k] \in BinaryChars

(* C11: parsing an N8 from a string s of n <= 8 binary digits succeeds;    *)
(* bit i (i < n) is the character at position n-1-i, bits n..7 are Zero,   *)
(* and the value is s read as a binary numeral, most significant first     *)
(* ("101" gives 5, the empty string gives 0).                              *)
C11_ParseBinary ==
    (op = "from_str" /\ IsBinary(native) /\ Len(native) <= 8) =>
        /\ status = "ok"
        /\ \A i \in 0..7 :
             bits[i] = IF i < Len(native) /\ native[Len(native) - i] = "1"
                       THEN One ELSE Zero
        /\ N8_to_u8(bits) = BinaryValue(native)

C11_Witness ==
    /\ op = "from_str" /\ native = <<"1", "0", "1">>
    /\ status = "ok" /\ N8_to_u8(bits) = 5

(* C12: parsing an N8 fails, producing no value, exactly when the string   *)
(* has a character other than '0' and '1' or is longer than 8 characters;  *)
(* every other string parses.                                              *)
C12_ParseFailsExactly ==
    op = "from_str" =>
        IF ~IsBinary(native) \/ Len(native) > 8
        THEN status = "err" /\ bits = NoBits
        ELSE status = "ok" /\ bits \in BitArrays(W8)

C12_Witness ==
    /\ op = "from_str" /\ IsBinary(native) /\ Len(native) = 9
    /\ status = "err" /\ bits = NoBits


(* C13 as claimed: on a Byte, get_bit and set_bit with an index >= 8 fail  *)
(* with an IndexOutOfRange error returned to the caller and leave the Byte *)
(* unchanged.                                                              *)
C13_ReturnsIndexError ==
    (op \in {"get_bit", "set_bit"} /\ amt >= 8) =>
        (status = "err" /\ bits = lhs)

(* C13 as the code has it: on a Byte, get_bit and set_bit with an index    *)
(* >= 8 panic and leave the Byte unchanged; with an index below 8, get_bit *)
(* returns the stored bit and set_bit changes the bit at that index only.  *)
C13_IndexAccess ==
    /\ op = "get_bit" =>
         /\ bits = lhs
         /\ IF amt >= 8 THEN status = "panic"
            ELSE status = "ok" /\ out = lhs[amt]
    /\ op = "set_bit" =>
         IF amt >= 8 THEN status = "panic" /\ bits = lhs
         ELSE /\ status = "ok"
              /\ bits[amt] = rhs
              /\ \A i \in 0..7 : i # amt => bits[i] = lhs[i]

C13_Witness ==
    /\ op = "set_bit" /\ amt = 8 /\ rhs = One
    /\ status = "panic" /\ bits = lhs

(* C18: on Byte (W = 8) and Nibble (W = 4), x << k has bit i equal to x's  *)
(* bit i-k for i >= k and Zero below k, x >> k has bit i equal to x's bit  *)
(* i+k for i < W-k and Zero in the top k positions; for every k >= W the   *)
(* result is all Zero, and no shift fails.                                 *)
C18_LogicalShifts ==
    LET w == Width(ty)
    IN /\ (op = "shl" /\ ty \in Containers) =>
            /\ status = "ok"
            /\ \A i \in 0..(w - 1) :
                 bits[i] = IF amt < w /\ i >= amt THEN lhs[i - amt] ELSE Zero
       /\ (op = "shr" /\ ty \in Containers) =>
            /\ status = "ok"
            /\ \A i \in 0..(w - 1) :
                 bits[i] = IF amt < w /\ i < w - amt THEN lhs[i + amt] ELSE Zero

C18_Witness ==
    /\ op = "shl" /\ ty = "Nibble" /\ amt = 4
    /\ lhs = [i \in 0..3 |-> One] /\ bits = ZeroBits(W4)


(* C14: for all N8 a and b, a * b never fails and yields the N8 whose      *)
(* value is (value(a) * value(b)) mod 256, also when the true product      *)
(* exceeds 255 (16 * 16 = 0).                                              *)
C14_MulWraps ==
    (op = "mul" /\ ty = "N8") =>
        /\ status = "ok"
        /\ N8_to_u8(bits) = (N8_to_u8(lhs) * N8_to_u8(rhs)) % 256


\* The value of a Z8 read from its bits: the bits as a binary numeral, less
\* 256 when the top bit is set.
Z8Value(b) == N8_to_u8(b) - (IF b[7] = One THEN 256 ELSE 0)

(* C15: for all Z8 a and b, a + b, a - b and a * b never fail and yield    *)
(* the value in -128..127 congruent to the exact result modulo 256         *)
(* (127 + 1 = -128, -128 - 1 = 127).                                       *)
C15_SignedWraps ==
    (ty = "Z8" /\ op \in {"add", "sub", "mul"}) =>
        LET a == Z8Value(lhs)
            b == Z8Value(rhs)
            exact == CASE op = "add" -> a + b
                       [] op = "sub" -> a - b
                       [] op = "mul" -> a * b
        IN /\ status = "ok"
           /\ Z8Value(bits) \in -128..127
           /\ (Z8Value(bits) - exact) % 256 = 0

C15_Witness ==
    /\ ty = "Z8" /\ op = "add" /\ Z8Value(lhs) = 127 /\ Z8Value(rhs) = 1
    /\ Z8Value(bits) = -128

\* The quotient and the remainder of the operands a Z8 division or remainder
\* was called on: the one the call returned, the other from the sibling operator.
Z8Quotient == Z8Value(IF op = "div" THEN bits ELSE Div(ty, lhs, rhs).bits)
Z8Remainder == Z8Value(IF op = "rem" THEN bits ELSE Rem(ty, lhs, rhs).bits)

\* What truncating division means for the dividend a, the non-zero divisor
\* b, the quotient q and the remainder r.
IsTruncatingDivision(a, b, q, r) ==
    /\ a = q * b + r
    /\ Abs(r) < Abs(b)
    /\ (r = 0 \/ (r < 0) = (a < 0))

\* C16 as stated: for every Z8 dividend a and every non-zero Z8 divisor b,
\* a / b and a % b do not fail, q = a / b is the quotient rounded toward zero,
\* r = a % b satisfies a == q*b + r with |r| < |b|, and r is zero or has the
\* sign of a.
C16_DivTruncates ==
    (ty = "Z8" /\ op \in {"div", "rem"} /\ Z8Value(rhs) # 0) =>
        /\ status = "ok"
        /\ IsTruncatingDivision(Z8Value(lhs), Z8Value(rhs), Z8Quotient, Z8Remainder)

\* C16, amended: the same for every Z8 dividend a and non-zero divisor b
\* except a = -128 with b = -1, whose quotient 128 is not a Z8: there
\* a / b is -128 and a % b is 0, and neither fails.
C16_DivTruncatesUnlessOverflow ==
    (ty = "Z8" /\ op \in {"div", "rem"} /\ Z8Value(rhs) # 0) =>
        /\ status = "ok"
        /\ IF Z8Value(lhs) = -128 /\ Z8Value(rhs) = -1
           THEN Z8Quotient = -128 /\ Z8Remainder = 0
           ELSE IsTruncatingDivision(Z8Value(lhs), Z8Value(rhs),
                                     Z8Quotient, Z8Remainder)

\* -7 / 2 has returned -3, and -7 % 2 is -1.
C16_Witness ==
    /\ ty = "Z8" /\ op = "div" /\ Z8Value(lhs) = -7 /\ Z8Value(rhs) = 2
    /\ Z8Value(bits) = -3 /\ Z8Remainder = -1

\* The value of a bit array read as a two's-complement word, index 0 least
\* significant.
RECURSIVE TwosValueFrom(_, _)
TwosValueFrom(b, j) ==
    IF j \notin DOMAIN b THEN 0
    ELSE IF (j + 1) \in DOMAIN b THEN b[j] + 2 * TwosValueFrom(b, j + 1)
    ELSE -b[j]

TwosValue(b) == TwosValueFrom(b, 0)

\* C17: on every Z8 and Z16 value x, each bit of !x is the negation of the
\* same bit of x, the value of !x is -value(x) - 1, and !!x == x.
C17_NotComplements ==
    [][op' = "not" =>
         /\ DOMAIN bits' = DOMAIN bits
         /\ \A j \in DOMAIN bits : bits'[j] # bits[j]
         /\ TwosValue(bits') = -TwosValue(bits) - 1
         /\ (op = "not" => bits' = lhs)]_vars

\* !10 has returned -11 on a Z8, and a second `!` has returned 10.
C17_Witness ==
    /\ ty = "Z8" /\ op = "not" /\ calls = 2
    /\ TwosValue(lhs) = -11 /\ TwosValue(bits) = 10

\* The truth value a Bit stands for.
Holds(b) == b = One

\* C19: and, or, xor, not, nand, nor, xnor and is never fail, return a Bit
\* (is: a Bool) and follow the Boolean truth tables on every input, with
\* nand(a, b) == not(and(a, b)) and xnor(a, b) == One iff a == b; as_bool and
\* from_bool map Zero <-> False and One <-> True, and
\* from_bool(as_bool(b)) == b.
C19_BitAlgebra ==
    ty = "Bit" =>
        /\ status = "ok"
        /\ bits \in Bit
        /\ op = "and" => (Holds(bits) <=> (Holds(lhs) /\ Holds(rhs)))
        /\ op = "or" => (Holds(bits) <=> (Holds(lhs) \/ Holds(rhs)))
        /\ op = "xor" => (Holds(bits) <=> (Holds(lhs) # Holds(rhs)))
        /\ op = "not" => (Holds(bits) <=> ~Holds(lhs))
        /\ op = "nand" => /\ out \in Bit
                          /\ Holds(out) <=> ~(Holds(lhs) /\ Holds(rhs))
                          /\ out = not(and(lhs, rhs))
        /\ op = "nor" => /\ out \in Bit
                         /\ Holds(out) <=> ~(Holds(lhs) \/ Holds(rhs))
        /\ op = "xnor" => /\ out \in Bit
                          /\ Holds(out) <=> (lhs = rhs)
        /\ op = "is" => /\ out \in Bool
                        /\ out = True <=> (lhs = rhs)
        /\ op = "as_bool" => /\ out \in Bool
                             /\ out = True <=> Holds(bits)
                             /\ from_bool(out) = bits
        /\ op = "from_bool" => (Holds(bits) <=> out = True)

\* xor(One, One) has returned Zero.
C19_Witness ==
    ty = "Bit" /\ op = "xor" /\ lhs = One /\ rhs = One /\ bits = Zero

\* C20: Nibble::ONE is the nibble 0b0001: its bit at index 0 is One, its
\* bits at indices 1..3 are Zero, its value is 1 and it is rendered, most
\* significant bit first, as "0001".
C20_NibbleOne ==
    (ty = "Nibble" /\ native = "ONE" /\ op = "fmt") =>
        /\ bits[0] = One
        /\ \A j \in 1..3 : bits[j] = Zero
        /\ bits[0] + 2 * bits[1] + 4 * bits[2] + 8 * bits[3] = 1
        /\ out = <<"0", "0", "0", "1">>

\* C26: -128 / -1 on Z8 returns -128 and -128 % -1 returns 0, neither
\* failing; a Z8 division or remainder fails exactly when the divisor is zero.
C26_DivOverflowWraps ==
    (ty = "Z8" /\ op \in {"div", "rem"}) =>
        /\ (status # "ok") <=> (Z8Value(rhs) = 0)
        /\ (Z8Value(lhs) = -128 /\ Z8Value(rhs) = -1) =>
               /\ op = "div" => Z8Value(bits) = -128
               /\ op = "rem" => Z8Value(bits) = 0

\* -128 / -1 has returned -128.
C26_Witness ==
    /\ ty = "Z8" /\ op = "div" /\ status = "ok"
    /\ Z8Value(lhs) = -128 /\ Z8Value(rhs) = -1 /\ Z8Value(bits) = -128

\* C25: for all 8-bit patterns p and q, Z8(p) + Z8(q) has the bits of the
\* ripple-carry N8(p) + N8(q), and Z8(p) - Z8(q) the bits of the
\* ripple-borrow N8(p) - N8(q).
C25_SignedMatchesUnsigned ==
    /\ (ty = "Z8" /\ op = "add") => bits = N8_add(lhs, rhs)
    /\ (ty = "Z8" /\ op = "sub") => bits = N8_sub(lhs, rhs)

\* -128 - 1 has been computed on the Z8: the borrow has run through every bit.
C25_Witness ==
    /\ ty = "Z8" /\ op = "sub" /\ Z8Value(lhs) = -128 /\ Z8Value(rhs) = 1
    /\ bits = N8_sub(lhs, rhs) /\ N8_to_u8(bits) = 127

\* C23: for every N8 x and every n, x.rotate_left(n) gives the bit array
\* of x.as_byte().rotate_left(n), the bit at index i moving to index
\* (i + n) mod 8, and likewise for rotate_right, the bit at index (i + n) mod 8
\* moving to index i.
C23_RotationsAgree ==
    /\ (ty = "N8" /\ op = "rotate_left") =>
         /\ bits = Byte_rotate_left(as_byte(lhs), amt)
         /\ \A i \in 0..7 : bits[(i + amt) % 8] = lhs[i]
    /\ (ty = "N8" /\ op = "rotate_right") =>
         /\ bits = Byte_rotate_right(as_byte(lhs), amt)
         /\ \A i \in 0..7 : bits[i] = lhs[(i + amt) % 8]

\* 0b1100_1010 rotated left by 2 is 0b0010_1011.
C23_Witness ==
    /\ ty = "N8" /\ op = "rotate_left" /\ amt = 2
    /\ N8_to_u8(lhs) = 202 /\ N8_to_u8(bits) = 43

\* The value of the w bits of b from index i on, index i least significant.
RECURSIVE FieldValue(_, _, _)
FieldValue(b, i, w) ==
    IF w = 0 THEN 0 ELSE b[i] + 2 * FieldValue(b, i + 1, w - 1)

\* The exact product of two 16-bit values, as <<low 16 bits, the rest>>,
\* from the products of their bytes.
ExactProduct(a, b) ==
    LET c0 == (a % 256) * (b % 256)
        c1 == (a % 256) * (b \div 256) + (a \div 256) * (b % 256)
        c2 == (a \div 256) * (b \div 256)
        low == c0 + (c1 % 256) * 256
    IN <<low % 65536, c2 + (c1 \div 256) + (low \div 65536)>>

\* C24: for all N16 a and b, a * b does not fail and returns the N32 whose
\* value is exactly value(a) * value(b), with no wraparound.
C24_MulWidens ==
    (op = "mul" /\ DOMAIN lhs = 0..15) =>
        /\ status = "ok"
        /\ ty = "N32"
        /\ DOMAIN bits = 0..31
        /\ <<FieldValue(bits, 0, 16), FieldValue(bits, 16, 16)>>
             = ExactProduct(FieldValue(lhs, 0, 16), FieldValue(rhs, 0, 16))

\* 65535 * 65535 has returned 4294836225 = 65534 * 2^16 + 1.
C24_Witness ==
    /\ op = "mul" /\ ty = "N32"
    /\ DOMAIN lhs = 0..15 /\ N16_to_u16(lhs) = 65535 /\ N16_to_u16(rhs) = 65535
    /\ FieldValue(bits, 0, 16) = 1 /\ FieldValue(bits, 16, 16) = 65534

\* Bit i of the IEEE 754 encoding of a float of type t.
PatternBit(t, value, i) ==
    LET field == IF i = Width(t) - 1 THEN value.sign
                 ELSE IF i >= Width(t) - 1 - ExpBits(t)
                 THEN value.exp \div Pow2(i - (Width(t) - 1 - ExpBits(t)))
                 ELSE value.frac[(i \div 16) + 1] \div Pow2(i % 16)
    IN field % 2

IsNaN(t, value) ==
    /\ value.exp = Pow2(ExpBits(t)) - 1
    /\ \E j \in DOMAIN value.frac : value.frac[j] # 0

\* C22: the R32 (R64) built from the native float with encoding p stores
\* bit i of p at index i, and converting it back gives a float with the
\* same encoding, whatever p is: NaN payloads, signed zeros, infinities
\* and subnormals included.
C22_FloatBitExact ==
    (ty \in Reals /\ op \in {"from", "into"}) =>
        /\ status = "ok"
        /\ DOMAIN bits = 0..(Width(ty) - 1)
        /\ \A i \in DOMAIN bits : bits[i] = PatternBit(ty, native, i)
        /\ op = "into" => out = native

\* A negative f32 NaN whose payload is its lowest fraction bit has gone
\* through R32 and come back.
C22_Witness ==
    /\ ty = "R32" /\ op = "into" /\ IsNaN(ty, native)
    /\ native.sign = 1 /\ native.frac = <<1, 0>>
    /\ bits[0] = One /\ bits[22] = Zero /\ bits[31] = One
    /\ out = native

\* C21: a Byte (W = 8) or Nibble (W = 4) collected from a bit sequence s
\* holds s[i] at every index i < min(len(s), W) and Zero at the indices
\* len(s)..W-1; what s holds at positions >= W is ignored, and the
\* construction does not fail for any length of s, the empty one included.
C21_FromIterTakesFirst ==
    (ty \in Containers /\ op = "from_iter") =>
        /\ status = "ok"
        /\ DOMAIN bits = 0..(Width(ty) - 1)
        /\ \A i \in 0..(Width(ty) - 1) :
             bits[i] = IF i < Len(native) THEN native[i + 1] ELSE Zero

\* A Byte has been collected from nine bits, the ninth of them the only One.
C21_Witness ==
    /\ ty = "Byte" /\ op = "from_iter" /\ Len(native) = 9
    /\ native[9] = One /\ \A i \in 1..8 : native[i] = Zero
    /\ bits = ZeroBits(W8)

\* A Nibble has been collected from the empty sequence.
C21_WitnessEmpty ==
    ty = "Nibble" /\ op = "from_iter" /\ native = <<>> /\ bits = ZeroBits(W4)

====
